---- MODULE Spec2Model ----
(***************************************************************************)
(* Model of t/latency_percentiles.py: the checks that compare fio's       *)
(* reported latency percentiles with the raw latency logs (check_latencies,*)
(* similar, check_jsonplus, check_terse) and the tallying loop of main.    *)
(*                                                                         *)
(* Python floats are IEEE-754 binary64.  Their arithmetic is modelled to   *)
(* the bit (FromRatio, FDivInt, FMulInt, Ceil, Floor, FLeq), so that the   *)
(* roundings of the source's float expressions are part of the model.      *)
(***************************************************************************)
EXTENDS Integers, Sequences, FiniteSets, TLC

(***************************************************************************)
(* IEEE-754 binary64 arithmetic on non-negative values.                    *)
(* A float is [z |-> TRUE] for 0.0, or [z |-> FALSE, m, e]: the value      *)
(* 0.m[1] m[2] ... m[Limbs] (digits in base 2^LimbBits) times 2^e, with    *)
(* the top bit of m[1] set and the last bit of m[Limbs] clear: Prec = 53   *)
(* significant bits.                                                       *)
(***************************************************************************)
LimbBits == 9
Base == 512
Limbs == 6
Prec == Limbs * LimbBits - 1

FZero == [z |-> TRUE, m |-> <<>>, e |-> 0]

RECURSIVE Pow2(_)
Pow2(k) == IF k <= 0 THEN 1 ELSE 2 * Pow2(k - 1)

ZeroLimbs(k) == [i \in 1..(IF k > 0 THEN k ELSE 0) |-> 0]

AnyNonZero(ls) == \E i \in 1..Len(ls) : ls[i] # 0

\* ls + c at the last limb; the carry out of the first limb is dropped
RECURSIVE AddLimbs(_, _)
AddLimbs(ls, c) ==
    IF ls = <<>> THEN <<>>
    ELSE LET n == Len(ls)
             t == ls[n] + c
         IN IF t < Base THEN SubSeq(ls, 1, n - 1) \o <<t>>
            ELSE AddLimbs(SubSeq(ls, 1, n - 1), 1) \o <<t - Base>>

\* round-to-nearest, ties-to-even, of 0.ls * 2^e (+ sticky) to Prec bits;
\* the top bit of ls[1] is set
RoundLimbs(ls, sticky, e) ==
    LET padded == ls \o ZeroLimbs(Limbs - Len(ls))
        guard  == padded[Limbs] % 2
        lsb    == (padded[Limbs] \div 2) % 2
        rest   == sticky \/ AnyNonZero(SubSeq(padded, Limbs + 1, Len(padded)))
        keep   == [i \in 1..Limbs |->
                     IF i = Limbs THEN padded[i] - guard ELSE padded[i]]
        up     == guard = 1 /\ (rest \/ lsb = 1)
        top    == \A i \in 1..Limbs :
                     keep[i] = (IF i = Limbs THEN Base - 2 ELSE Base - 1)
    IN IF ~up THEN [z |-> FALSE, m |-> keep, e |-> e]
       ELSE IF top
            THEN [z |-> FALSE, m |-> <<Base \div 2>> \o ZeroLimbs(Limbs - 1),
                  e |-> e + 1]
            ELSE [z |-> FALSE, m |-> AddLimbs(keep, 2), e |-> e]

\* the number of leading zero bits of a limb 0 < l < Base
RECURSIVE LeadZeros(_)
LeadZeros(l) == IF 2 * l >= Base THEN 0 ELSE 1 + LeadZeros(2 * l)

ShiftLeft(ls, s) ==
    [i \in 1..Len(ls) |->
        ((ls[i] * Pow2(s)) % Base)
        + (IF i < Len(ls) THEN ls[i + 1] \div Pow2(LimbBits - s) ELSE 0)]

\* drop the leading zero limbs and bits of 0.ls * 2^e, some limb being not 0
RECURSIVE NormLimbs(_, _)
NormLimbs(ls, e) ==
    IF Head(ls) = 0 THEN NormLimbs(Tail(ls), e - LimbBits)
    ELSE LET s == LeadZeros(Head(ls))
         IN [m |-> ShiftLeft(ls, s), e |-> e - s]

\* scale a/b into [1/2, 1) * 2^e
RECURSIVE Normalize(_, _, _)
Normalize(a, b, e) ==
    IF a >= b THEN Normalize(a, 2 * b, e + 1)
    ELSE IF 2 * a < b THEN Normalize(2 * a, b, e - 1)
    ELSE <<a, b, e>>

\* k quotient limbs of r/b (r < b), and the remainder left
RECURSIVE DivLimbs(_, _, _)
DivLimbs(r, b, k) ==
    IF k = 0 THEN [m |-> <<>>, rem |-> r]
    ELSE LET q    == (r * Base) \div b
             next == DivLimbs((r * Base) % b, b, k - 1)
         IN [m |-> <<q>> \o next.m, rem |-> next.rem]

\* the correctly rounded quotient of two integers a >= 0, b > 0:
\* Python's int / int, and float() of the decimal a/b
FromRatio(a, b) ==
    IF a = 0 THEN FZero
    ELSE LET n == Normalize(a, b, 0)
             q == DivLimbs(n[1], n[2], Limbs)
         IN RoundLimbs(q.m, q.rem # 0, n[3])

\* long division of the limbs ls by the integer d, r the remainder so far
RECURSIVE StreamDiv(_, _, _)
StreamDiv(ls, r, d) ==
    IF ls = <<>> THEN [m |-> <<>>, rem |-> r]
    ELSE LET t    == r * Base + Head(ls)
             next == StreamDiv(Tail(ls), t % d, d)
         IN [m |-> <<t \div d>> \o next.m, rem |-> next.rem]

\* float / integer, 0 < d < Base^2
FDivInt(f, d) ==
    IF f.z THEN FZero
    ELSE LET q == StreamDiv(f.m \o ZeroLimbs(3), 0, d)
             n == NormLimbs(q.m, f.e)
         IN RoundLimbs(n.m, q.rem # 0, n.e)

RECURSIVE ToLimbs(_)
ToLimbs(n) == IF n = 0 THEN <<>> ELSE ToLimbs(n \div Base) \o <<(n % Base)>>

\* ls * n + c, from the last limb on
RECURSIVE MulLimbs(_, _, _)
MulLimbs(ls, n, c) ==
    IF ls = <<>> THEN ToLimbs(c)
    ELSE LET k == Len(ls)
             t == ls[k] * n + c
         IN IF t < 0 THEN <<>>
            ELSE MulLimbs(SubSeq(ls, 1, k - 1), n, t \div Base) \o <<(t % Base)>>

\* float * integer, 0 <= n < Base^2
FMulInt(f, n) ==
    IF f.z \/ n = 0 THEN FZero
    ELSE LET p == MulLimbs(f.m, n, 0)
             q == NormLimbs(p, f.e + (Len(p) - Limbs) * LimbBits)
         IN RoundLimbs(q.m, FALSE, q.e)

RECURSIVE LimbsToInt(_)
LimbsToInt(ls) ==
    IF ls = <<>> THEN 0
    ELSE Base * LimbsToInt(SubSeq(ls, 1, Len(ls) - 1)) + ls[Len(ls)]

\* math.floor(f), for f < 2^27
Floor(f) ==
    IF f.z \/ f.e <= 0 THEN 0
    ELSE LET q == f.e \div LimbBits
             r == f.e % LimbBits
         IN (LimbsToInt(SubSeq(f.m, 1, q)) * Pow2(r))
            + (f.m[q + 1] \div Pow2(LimbBits - r))

\* math.ceil(f), for f < 2^27
Ceil(f) ==
    IF f.z THEN 0
    ELSE IF f.e <= 0 THEN 1
    ELSE LET q == f.e \div LimbBits
             r == f.e % LimbBits
             frac == (f.m[q + 1] % Pow2(LimbBits - r)) # 0
                     \/ AnyNonZero(SubSeq(f.m, q + 2, Limbs))
         IN Floor(f) + (IF frac THEN 1 ELSE 0)

\* lexicographic <= on limb strings of the same length
RECURSIVE LimbsLeq(_, _)
LimbsLeq(a, b) ==
    IF a = <<>> THEN TRUE
    ELSE IF Head(a) # Head(b) THEN Head(a) < Head(b)
    ELSE LimbsLeq(Tail(a), Tail(b))

\* f <= g
FLeq(f, g) ==
    IF f.z THEN TRUE
    ELSE IF g.z THEN FALSE
    ELSE IF f.e # g.e THEN f.e < g.e
    ELSE LimbsLeq(f.m, g.m)

(***************************************************************************)
(* Outcomes of a call: a returned value, or a raised exception.            *)
(***************************************************************************)
Return(v) == [exc |-> "none", val |-> v]
Raise(e) == [exc |-> e, val |-> FALSE]

Abs(x) == IF x < 0 THEN 0 - x ELSE x

\* similar(estimate, actual), lines 330-331
similar_strict(estimate, actual) ==
    IF actual = 0 THEN Raise("ZeroDivisionError")
    ELSE LET delta == FromRatio(Abs(estimate - actual), actual)
         IN Return(~FLeq(FromRatio(1, 128), delta))

similar(estimate, actual) ==
    IF actual = 0 THEN Raise("ZeroDivisionError")
    ELSE LET delta == FromRatio(Abs(estimate - actual), actual)
         IN Return(FLeq(delta, FromRatio(1, 128)))

Min(S) == CHOOSE x \in S : \A y \in S : x <= y
Max(S) == CHOOSE x \in S : \A y \in S : x >= y

RECURSIVE SumOver(_, _)
SumOver(f, S) ==
    IF S = {} THEN 0
    ELSE LET k == CHOOSE x \in S : TRUE
         IN f[k] + SumOver(f, S \ {k})

\* check_jsonplus(jsondata), lines 347-368: the value returned and the
\* diagnostics printed
check_jsonplus(jsondata) ==
    LET keys == DOMAIN jsondata.bins
    IN IF keys = {} THEN [exc |-> "ValueError", val |-> FALSE, msgs |-> {}]
       ELSE
       LET smallest == Min(keys)
           biggest  == Max(keys)
           sampsize == SumOver(jsondata.bins, keys)
           smin     == similar(jsondata.min, smallest)
           smax     == similar(jsondata.max, biggest)
       IN IF smin.exc # "none"
          THEN [exc |-> smin.exc, val |-> FALSE, msgs |-> {}]
          ELSE IF smax.exc # "none"
          THEN [exc |-> smax.exc, val |-> FALSE,
                msgs |-> IF smin.val THEN {} ELSE {"min"}]
          ELSE [exc |-> "none",
                val |-> smin.val /\ smax.val /\ sampsize = jsondata.N,
                msgs |-> (IF smin.val THEN {} ELSE {"min"})
                         \cup (IF smax.val THEN {} ELSE {"max"})
                         \cup (IF sampsize = jsondata.N THEN {} ELSE {"count"})]

(***************************************************************************)
(* check_terse: the condensed fields are character strings "<pct>%=<val>". *)
(***************************************************************************)
Digits == <<"0", "1", "2", "3", "4", "5", "6", "7", "8", "9">>

DigitVal(c) == (CHOOSE d \in 1..10 : Digits[d] = c) - 1

\* int(s) of a string of decimal digits
RECURSIVE ParseInt(_)
ParseInt(s) ==
    IF s = <<>> THEN 0
    ELSE 10 * ParseInt(SubSeq(s, 1, Len(s) - 1)) + DigitVal(s[Len(s)])

\* str(n), n >= 0
RECURSIVE FormatInt(_)
FormatInt(n) ==
    IF n < 10 THEN <<Digits[n + 1]>>
    ELSE FormatInt(n \div 10) \o <<Digits[(n % 10) + 1]>>

\* lat.split('%'): the field has one '%'
Split(s) ==
    LET k == CHOOSE i \in 1..Len(s) : s[i] = "%"
    IN <<SubSeq(s, 1, k - 1), SubSeq(s, k + 1, Len(s))>>

\* math.floor(jsondata[pct]/1000), line 414
json_val_ceil(v) == Ceil(FromRatio(v, 1000))

json_val(v) == Floor(FromRatio(v, 1000))

\* terse_val = int(split[1][1:]), line 413
terse_val(field) == ParseInt(Tail(Split(field)[2]))

(***************************************************************************)
(* State.                                                                  *)
(***************************************************************************)
VARIABLES
    pc,         \* where the function under check is
    args,       \* its arguments
    files,      \* the latency logs <filename>_<lat>.1.log, by latency type
    ret,        \* the value it returned (pc = "done")
    exc,        \* the exception it raised (pc = "raised"), or "none"
    out,        \* the diagnostics it printed
    lat,        \* position of the loop over the latency types / the fields
    this_iter,  \* check_latencies: verdict of the current latency type
    retval,     \* verdict so far
    latencies,  \* check_latencies: the samples loaded for the current type
    ptiles,     \* check_latencies: the percentiles still to compare
    compared,   \* the comparisons carried out so far
    offset,     \* get_json, get_terse: the loop variable i, a line offset
    tried,      \* get_json, get_terse: the offsets tried so far, in order
    test,       \* main: position in tests
    passed,     \* main: tally
    failed,     \* main: tally
    status      \* main: status of the last test

vars == <<pc, args, files, ret, exc, out, lat, this_iter, retval, latencies,
          ptiles, compared, offset, tried, test, passed, failed, status>>

latVars == <<files, lat, this_iter, retval, latencies, ptiles, compared,
            offset, tried>>
mainVars == <<test, passed, failed, status>>

InitLocals ==
    /\ pc = "call"
    /\ ret = FALSE
    /\ exc = "none"
    /\ out = {}
    /\ lat = 1
    /\ this_iter = TRUE
    /\ retval = TRUE
    /\ latencies = <<>>
    /\ ptiles = <<>>
    /\ compared = {}
    /\ offset = 0
    /\ tried = <<>>

InitMainVars ==
    /\ test = 1
    /\ passed = 0
    /\ failed = 0
    /\ status = Return(FALSE)

(***************************************************************************)
(* similar() called on its own.                                            *)
(***************************************************************************)
MaxVal == 260

InitSimilar ==
    /\ InitLocals
    /\ InitMainVars
    /\ files = <<>>
    /\ args \in [estimate : 0..MaxVal, actual : 0..MaxVal]

CallSimilar ==
    /\ pc = "call"
    /\ LET r == similar(args.estimate, args.actual)
       IN /\ pc' = IF r.exc = "none" THEN "done" ELSE "raised"
          /\ ret' = r.val
          /\ exc' = r.exc
    /\ UNCHANGED <<args, out, latVars, mainVars>>

NextSimilar == CallSimilar

SpecSimilar == InitSimilar /\ [][NextSimilar]_vars

(***************************************************************************)
(* check_jsonplus() called on its own.                                     *)
(***************************************************************************)
BinKeys == {0, 100, 200, 300}
BinCounts == {2, 3, 5}
MaxN == 10

BinTables == UNION {[K -> BinCounts] : K \in SUBSET BinKeys}

InitJsonplus ==
    /\ InitLocals
    /\ InitMainVars
    /\ files = <<>>
    /\ args \in [bins : BinTables, min : {0, 100, 101}, max : {200, 300, 303},
                 N : (MaxN - 1)..MaxN]

CallJsonplus ==
    /\ pc = "call"
    /\ LET r == check_jsonplus(args)
       IN /\ pc' = IF r.exc = "none" THEN "done" ELSE "raised"
          /\ ret' = r.val
          /\ exc' = r.exc
          /\ out' = r.msgs
    /\ UNCHANGED <<args, latVars, mainVars>>

NextJsonplus == CallJsonplus

SpecJsonplus == InitJsonplus /\ [][NextJsonplus]_vars

(***************************************************************************)
(* check_terse(terse, jsondata), lines 408-420, a loop over the fields.    *)
(***************************************************************************)
MaxFields == 2

Pct50 == <<"5", "0", ".", "0", "0", "0", "0", "0", "0">>
Pct99 == <<"9", "9", ".", "0", "0", "0", "0", "0", "0">>
Pct100 == <<"1", "0", "0", ".", "0", "0", "0", "0", "0", "0">>

\* the labels of the structured report, and those of the condensed fields
JsonLabels == {Pct50, Pct99}
TerseLabels == {Pct50, Pct99, Pct100}
TerseVals == {0, 1234, 1235}
NsVals == {999, 1234000, 1234999, 1235000}

\* the condensed field fio writes for a percentile and a value in usec
Field(label, v) == label \o <<"%", "=">> \o FormatInt(v)

TerseFields == {Field(l, v) : l \in TerseLabels, v \in TerseVals}

InitTerse ==
    /\ InitLocals
    /\ InitMainVars
    /\ files = <<>>
    /\ args \in [terse : UNION {[1..n -> TerseFields] : n \in 0..MaxFields},
                 jsondata : [JsonLabels -> NsVals]]

\* one iteration of "for lat in terse", lines 410-418
TerseField ==
    /\ pc \in {"call", "for_lat"}
    /\ lat <= Len(args.terse)
    /\ LET split == Split(args.terse[lat])
           pct == split[1]
       IN IF pct \notin DOMAIN args.jsondata
          THEN /\ pc' = "raised"
               /\ exc' = "KeyError"
               /\ UNCHANGED <<retval, out, lat, compared>>
          ELSE /\ pc' = "for_lat"
               /\ compared' = compared \cup {lat}
               /\ IF terse_val(args.terse[lat]) # json_val(args.jsondata[pct])
                  THEN /\ retval' = FALSE
                       /\ out' = out \cup {<<"Mismatch", lat>>}
                  ELSE UNCHANGED <<retval, out>>
               /\ lat' = lat + 1
               /\ exc' = exc
    /\ UNCHANGED <<args, files, offset, tried, ret, this_iter, latencies,
                   ptiles, mainVars>>

\* return retval, line 420
TerseReturn ==
    /\ pc \in {"call", "for_lat"}
    /\ lat > Len(args.terse)
    /\ pc' = "done"
    /\ ret' = retval
    /\ UNCHANGED <<args, exc, out, latVars, mainVars>>

NextTerse == TerseField \/ TerseReturn

SpecTerse == InitTerse /\ [][NextTerse]_vars

(***************************************************************************)
(* check_latencies(test_dir, filename, jsondata, ddir, slat, clat, tlat,   *)
(* plus, unified), lines 207-300.                                          *)
(***************************************************************************)
LatTypes == <<"slat", "clat", "lat">>

\* lat+'_ns'
Ns(l) == CASE l = "slat" -> "slat_ns"
           [] l = "clat" -> "clat_ns"
           [] l = "lat" -> "lat_ns"

\* types, lines 207-211
types(a) == [slat |-> a.slat, clat |-> a.clat, lat |-> a.tlat]

Range(s) == {s[i] : i \in 1..Len(s)}

\* the loop of lines 253-258 over the records <<time, latency, ddir>>
LoadDirectionOnly(log, unified, ddir) ==
    LET keep == SelectSeq(log, LAMBDA line : line[3] = ddir)
    IN [i \in 1..Len(keep) |-> keep[i][2]]

Load(log, unified, ddir) ==
    LET keep == SelectSeq(log, LAMBDA line : unified \/ line[3] = ddir)
    IN [i \in 1..Len(keep) |-> keep[i][2]]

\* latencies.sort(), line 265
Sort(s) ==
    [i \in 1..Len(s) |->
        CHOOSE x \in Range(s) :
            /\ Cardinality({j \in 1..Len(s) : s[j] < x}) < i
            /\ i <= Cardinality({j \in 1..Len(s) : s[j] <= x})]

\* line 260
CountDiffersAbove(total_ios, n) == total_ios > n

CountDiffers(total_ios, n) == total_ios # n

RECURSIVE StripTrailingZeros(_)
StripTrailingZeros(s) ==
    IF s # <<>> /\ s[Len(s)] = "0"
    THEN StripTrailingZeros(SubSeq(s, 1, Len(s) - 1))
    ELSE s

\* the decimal number <<numerator, denominator>> a percentile label denotes
Decimal(label) ==
    LET k  == CHOOSE i \in 1..Len(label) : label[i] = "."
        ip == SubSeq(label, 1, k - 1)
        fp == StripTrailingZeros(SubSeq(label, k + 1, Len(label)))
    IN <<ParseInt(ip \o fp), ParseInt(<<"1">> \o [i \in 1..Len(fp) |-> "0"])>>

\* float(percentile)
float(label) == FromRatio(Decimal(label)[1], Decimal(label)[2])

\* rank = math.ceil(float(percentile)/100 * len(latencies)), line 278
Rank(percentile, n) == Ceil(FMulInt(FDivInt(float(percentile), 100), n))

\* lines 279-282
Index(rank) == IF rank > 0 THEN rank - 1 ELSE 0

\* lines 240-250: the 'bins' table is there exactly under json+ (plus), and
\* then passes check_jsonplus
BinsOkPlusOnly(plus, hasb, jpval) == IF plus THEN hasb /\ jpval ELSE TRUE

BinsOk(plus, hasb, jpval) == IF plus THEN hasb /\ jpval ELSE ~hasb

\* lines 216-266 for an enabled latency type l: the verdict and diagnostics
\* before the percentiles are compared, or the exception raised
Precheck(a, log, l) ==
    LET sec  == a.jsondata[Ns(l)]
        hasp == "percentile" \in DOMAIN sec
        hasb == "bins" \in DOMAIN sec
        jp   == IF a.plus /\ hasb THEN check_jsonplus(sec)
                ELSE [exc |-> "none", val |-> TRUE, msgs |-> {}]
        samples == Load(log, a.unified, a.ddir)
        differ == CountDiffers(a.jsondata.total_ios, Len(samples))
    IN IF jp.exc # "none"
       THEN [exc |-> jp.exc, this_iter |-> FALSE, latencies |-> <<>>,
             msgs |-> IF hasp THEN {} ELSE {<<l, "percentiles not found">>}]
       ELSE [exc |-> IF hasp THEN "none" ELSE "KeyError",
             this_iter |-> /\ hasp
                           /\ BinsOk(a.plus, hasb, jp.val)
                           /\ ~differ,
             latencies |-> Sort(samples),
             msgs |-> (IF hasp THEN {} ELSE {<<l, "percentiles not found">>})
                      \cup (IF a.plus /\ ~hasb THEN {<<l, "bins not found">>}
                            ELSE {})
                      \cup (IF ~a.plus /\ hasb THEN {<<l, "bins found">>}
                            ELSE {})
                      \cup {<<l, m>> : m \in jp.msgs}
                      \cup (IF differ THEN {<<l, "total_ios">>} ELSE {})]

\* one iteration of "for lat in ['slat', 'clat', 'lat']" up to the loop over
\* the percentiles, lines 216-266
LatBody ==
    /\ pc \in {"call", "for_lat"}
    /\ lat <= Len(LatTypes)
    /\ LET l == LatTypes[lat]
       IN IF ~types(args)[l]
          THEN /\ IF "percentile" \in DOMAIN args.jsondata[Ns(l)]
                  THEN /\ this_iter' = FALSE
                       /\ out' = out \cup {<<l, "unexpected percentiles">>}
                  ELSE /\ this_iter' = TRUE
                       /\ out' = out \cup {<<l, "percentiles skipped">>}
               /\ lat' = lat + 1
               /\ pc' = "for_lat"
               /\ UNCHANGED <<exc, latencies, ptiles>>
          ELSE LET r == Precheck(args, files[l], l)
               IN /\ this_iter' = r.this_iter
                  /\ out' = out \cup r.msgs
                  /\ latencies' = r.latencies
                  /\ exc' = r.exc
                  /\ IF r.exc # "none"
                     THEN pc' = "raised" /\ ptiles' = ptiles
                     ELSE /\ pc' = "for_percentile"
                          /\ ptiles' = args.jsondata[Ns(l)].percentile
                  /\ lat' = lat
    /\ UNCHANGED <<args, files, offset, tried, ret, retval, compared, mainVars>>

\* one iteration of "for percentile in ptiles.keys()", lines 268-293; the
\* division of line 287 raises on the same value as the one in similar()
LatPercentile ==
    /\ pc = "for_percentile"
    /\ ptiles # <<>>
    /\ LET l == LatTypes[lat]
           percentile == ptiles[1][1]
           fio_val == ptiles[1][2]
           rank == Rank(percentile, Len(latencies))
           index == Index(rank)
       IN IF index >= Len(latencies)
          THEN /\ pc' = "raised"
               /\ exc' = "IndexError"
               /\ UNCHANGED <<this_iter, out, ptiles, compared>>
          ELSE LET value == latencies[index + 1]
                   sim == similar(fio_val, value)
               IN IF sim.exc # "none"
                  THEN /\ pc' = "raised"
                       /\ exc' = sim.exc
                       /\ UNCHANGED <<this_iter, out, ptiles, compared>>
                  ELSE /\ pc' = pc
                       /\ exc' = exc
                       /\ ptiles' = Tail(ptiles)
                       /\ compared' = compared \cup
                            {[lat |-> l, percentile |-> percentile,
                              rank |-> rank, index |-> index,
                              value |-> value, fio_val |-> fio_val]}
                       /\ IF sim.val
                          THEN UNCHANGED <<this_iter, out>>
                          ELSE /\ this_iter' = FALSE
                               /\ out' = out \cup {<<l, "Error", percentile>>}
    /\ UNCHANGED <<args, files, offset, tried, ret, lat, retval, latencies,
                   mainVars>>

\* the end of an iteration for an enabled type, lines 295-298
LatVerdict ==
    /\ pc = "for_percentile"
    /\ ptiles = <<>>
    /\ IF this_iter
       THEN /\ out' = out \cup {<<LatTypes[lat], "percentiles match">>}
            /\ retval' = retval
       ELSE /\ retval' = FALSE
            /\ out' = out
    /\ lat' = lat + 1
    /\ pc' = "for_lat"
    /\ UNCHANGED <<args, files, offset, tried, ret, exc, this_iter,
                   latencies, ptiles, compared, mainVars>>

\* return retval, line 300
LatReturn ==
    /\ pc \in {"call", "for_lat"}
    /\ lat > Len(LatTypes)
    /\ pc' = "done"
    /\ ret' = retval
    /\ UNCHANGED <<args, exc, out, latVars, mainVars>>

NextLatencies == LatBody \/ LatPercentile \/ LatVerdict \/ LatReturn

(***************************************************************************)
(* The reports and logs check_latencies is called on.                      *)
(***************************************************************************)
MaxIos == 1

Pct28 == <<"2", "8", ".", "0", "0", "0", "0", "0", "0">>
Pct999 == <<"9", "9", ".", "9", "0", "0", "0", "0", "0">>

\* sections <lat>_ns of a report: without percentiles, with percentiles of
\* a 200 ns sample, with the bins of json+, and with bins whose counts do
\* not sum to N
Sections ==
    { [N |-> 1, min |-> 200, max |-> 200],
      [N |-> 2, min |-> 200, max |-> 200,
       percentile |-> << <<Pct50, 201>> >>],
      [N |-> 1, min |-> 200, max |-> 200,
       percentile |-> << <<Pct50, 200>>, <<Pct100, 203>> >>],
      [N |-> 1, min |-> 200, max |-> 201,
       percentile |-> << <<Pct100, 200>> >>, bins |-> (200 :> 1)],
      [N |-> 2, min |-> 200, max |-> 200,
       percentile |-> << <<Pct100, 200>> >>, bins |-> (200 :> 1)] }

\* logs of records <<time, latency, ddir>>
Logs ==
    { <<>>,
      << <<0, 200, 0>> >>,
      << <<0, 200, 0>>, <<1, 0, 1>> >> }

InitLatencies ==
    /\ InitLocals
    /\ InitMainVars
    /\ files \in [{"slat", "clat", "lat"} -> Logs]
    /\ args \in [jsondata : [total_ios : 1..MaxIos, slat_ns : Sections,
                             clat_ns : Sections, lat_ns : Sections],
                 ddir : {0, 1}, slat : BOOLEAN, clat : BOOLEAN,
                 tlat : BOOLEAN, plus : BOOLEAN, unified : BOOLEAN]

SpecLatencies == InitLatencies /\ [][NextLatencies]_vars

(***************************************************************************)
(* check_latencies on longer logs: one enabled type, one percentile.       *)
(***************************************************************************)
MaxSamples == 25

RankLabels == {Pct28, Pct50, Pct999, Pct100}

\* n records of direction 0, latencies 1000 + 10*n down to 1010
RankLog(n) == [i \in 1..n |-> <<i, 1000 + 10 * (n + 1 - i), 0>>]

InitRank ==
    /\ InitLocals
    /\ InitMainVars
    /\ \E n \in 1..MaxSamples, label \in RankLabels, v \in {1010, 1070, 1080} :
         /\ files = [l \in {"slat", "clat", "lat"} |-> RankLog(n)]
         /\ args = [jsondata |->
                      [total_ios |-> n,
                       slat_ns |-> [N |-> 0, min |-> 0, max |-> 0],
                       clat_ns |-> [N |-> n, min |-> 1010,
                                    max |-> 1000 + 10 * n,
                                    percentile |-> << <<label, v>> >>],
                       lat_ns |-> [N |-> n, min |-> 1010,
                                   max |-> 1000 + 10 * n]],
                    ddir |-> 0, slat |-> FALSE, clat |-> TRUE,
                    tlat |-> FALSE, plus |-> FALSE, unified |-> FALSE]

SpecRank == InitRank /\ [][NextLatencies]_vars

(***************************************************************************)
(* check_latencies on logs that mix the directions: one enabled type, one  *)
(* percentile.                                                             *)
(***************************************************************************)
MaxLog == 3

\* records of reads (0), writes (1) and trims (2)
LoadRecords == {<<0, v, d>> : v \in {100, 200}, d \in {0, 1, 2}}

LoadLogs == UNION {[1..n -> LoadRecords] : n \in 0..MaxLog}

InitLoad ==
    /\ InitLocals
    /\ InitMainVars
    /\ \E log \in LoadLogs :
         files = [slat |-> <<>>, clat |-> log, lat |-> <<>>]
    /\ \E d \in {0, 1, 2}, u \in BOOLEAN, n \in 1..MaxLog :
         args = [jsondata |->
                   [total_ios |-> n,
                    slat_ns |-> [N |-> 0, min |-> 0, max |-> 0],
                    clat_ns |-> [N |-> n, min |-> 100, max |-> 200,
                                 percentile |-> << <<Pct100, 200>> >>],
                    lat_ns |-> [N |-> n, min |-> 100, max |-> 200]],
                 ddir |-> d, slat |-> FALSE, clat |-> TRUE,
                 tlat |-> FALSE, plus |-> FALSE, unified |-> u]

SpecLoad == InitLoad /\ [][NextLatencies]_vars

(***************************************************************************)
(* main(), lines 916-934, with check_t001 .. check_t011.                   *)
(***************************************************************************)
NumTests == 11

\* Python values: bool(x) of a bool and of a tuple
PyBool(b) == [t |-> "bool", v |-> b]
PyTuple(x) == [t |-> "tuple", v |-> x]
Truthy(x) == IF x.t = "bool" THEN x.v ELSE Len(x.v) > 0

\* check_tNNN(test_dir, filename): json_ok and terse_ok are the statuses of
\* get_json and get_terse, verdict the conjunction of the checks
check_t(id, json_ok, terse_ok, verdict) ==
    IF ~json_ok THEN PyTuple(<<FALSE, "could not decode JSON data">>)
    ELSE IF id >= 10 /\ ~terse_ok
    THEN PyTuple(<<FALSE, "could not decode terse data">>)
    ELSE PyBool(verdict)

InitMain ==
    /\ InitLocals
    /\ InitMainVars
    /\ files = <<>>
    /\ args = [test_id |-> 0, fio_ok |-> FALSE, json_ok |-> FALSE,
               terse_ok |-> FALSE, verdict |-> FALSE]

\* one iteration of "for test in tests", lines 919-928
MainTest ==
    /\ pc \in {"call", "for_test"}
    /\ test <= NumTests
    /\ \E fio_ok \in BOOLEAN, json_ok \in BOOLEAN, terse_ok \in BOOLEAN,
          verdict \in BOOLEAN :
         LET st == IF fio_ok THEN check_t(test, json_ok, terse_ok, verdict)
                   ELSE PyBool(FALSE)
         IN /\ args' = [test_id |-> test, fio_ok |-> fio_ok,
                        json_ok |-> json_ok, terse_ok |-> terse_ok,
                        verdict |-> verdict]
            /\ status' = st
            /\ out' = out \cup
                 {<<test, IF Truthy(st) THEN "PASSED" ELSE "FAILED">>}
            /\ IF Truthy(st)
               THEN passed' = passed + 1 /\ failed' = failed
               ELSE failed' = failed + 1 /\ passed' = passed
    /\ test' = test + 1
    /\ pc' = "for_test"
    /\ UNCHANGED <<files, offset, tried, ret, exc, lat, this_iter, retval,
                   latencies, ptiles, compared>>

\* sys.exit(failed), line 932
MainExit ==
    /\ pc \in {"call", "for_test"}
    /\ test > NumTests
    /\ pc' = "done"
    /\ ret' = (failed = 0)
    /\ UNCHANGED <<args, exc, out, latVars, mainVars>>

NextMain == MainTest \/ MainExit

SpecMain == InitMain /\ [][NextMain]_vars

(***************************************************************************)
(* get_json(filename), lines 134-158.  The file is a sequence of lines;    *)
(* a line is blank, an informational message of fio, or one JSON token.    *)
(***************************************************************************)
MaxJsonLines == 6

\* range(5), line 149
JsonTries == 5

JsonLineKinds == {"", "fio: note", "1", "{", "}"}

JsonFiles == UNION {[1..n -> JsonLineKinds] : n \in 0..MaxJsonLines}

\* lines[i:], line 150
DropOneMore(lines, k) == SubSeq(lines, k + 2, Len(lines))

Drop(lines, k) == SubSeq(lines, k + 1, Len(lines))

\* json.loads('\n'.join(lines)), lines 150-152: line ends and blank lines
\* are white space between the tokens, the text is one JSON value (the
\* number 1 or the empty object) and nothing else
loads(lines) ==
    LET toks == SelectSeq(lines, LAMBDA t : t # "")
    IN IF toks = <<"1">> THEN Return("1")
       ELSE IF toks = <<"{", "}">> THEN Return("{}")
       ELSE Raise("JSONDecodeError")

InitGetJson ==
    /\ InitLocals
    /\ InitMainVars
    /\ args = [filename |-> "fio.output"]
    /\ files \in [{"fio.output"} -> JsonFiles]

\* one iteration of "for i in range(5)", lines 149-156
GetJsonTry ==
    /\ pc \in {"call", "for_i"}
    /\ offset < JsonTries
    /\ tried' = Append(tried, offset)
    /\ LET r == loads(Drop(files[args.filename], offset))
       IN IF r.exc = "none"
          THEN /\ pc' = "done"
               /\ ret' = <<TRUE, r.val>>
               /\ UNCHANGED offset
          ELSE /\ pc' = "for_i"
               /\ offset' = offset + 1
               /\ UNCHANGED ret
    /\ UNCHANGED <<args, files, exc, out, lat, this_iter, retval, latencies,
                   ptiles, compared, mainVars>>

\* line 158
GetJsonFail ==
    /\ pc \in {"call", "for_i"}
    /\ offset = JsonTries
    /\ pc' = "done"
    /\ ret' = <<FALSE, "">>
    /\ UNCHANGED <<args, files, exc, out, lat, this_iter, retval, latencies,
                   ptiles, compared, offset, tried, mainVars>>

NextGetJson == GetJsonTry \/ GetJsonFail

SpecGetJson == InitGetJson /\ [][NextGetJson]_vars

(***************************************************************************)
(* get_terse(filename), lines 161-182.  The lines are character strings.   *)
(***************************************************************************)
MaxTerseLines == 9

\* range(8), line 177
TerseTries == 8

\* '3;fio-', line 179
Marker == <<"3", ";", "f", "i", "o", "-">>

\* a line of condensed output, a line that stops short of the marker, and
\* an informational message
TerseLineKinds ==
    { Marker \o <<"3", ";", "j", ";", "0">>,
      <<"3", ";", "f", "i", "o">>,
      <<"f", "i", "o", ":">> }

TerseFiles == UNION {[1..n -> TerseLineKinds] : n \in 0..MaxTerseLines}

\* s.startswith(p), line 179
startswith(s, p) == Len(s) >= Len(p) /\ SubSeq(s, 1, Len(p)) = p

\* s.split(sep), line 180
RECURSIVE SplitOn(_, _)
SplitOn(s, sep) ==
    IF \A k \in 1..Len(s) : s[k] # sep THEN <<s>>
    ELSE LET k == Max({j \in 1..Len(s) : s[j] = sep})
         IN Append(SplitOn(SubSeq(s, 1, k - 1), sep),
                   SubSeq(s, k + 1, Len(s)))

InitGetTerse ==
    /\ InitLocals
    /\ InitMainVars
    /\ args = [filename |-> "fio.output"]
    /\ files \in [{"fio.output"} -> TerseFiles]

\* one iteration of "for i in range(8)", lines 177-180
GetTerseLine ==
    /\ pc \in {"call", "for_i"}
    /\ offset < TerseTries
    /\ tried' = Append(tried, offset)
    /\ LET lines == files[args.filename]
       IN IF offset + 1 > Len(lines)
          THEN /\ pc' = "raised"
               /\ exc' = "IndexError"
               /\ UNCHANGED <<ret, offset>>
          ELSE IF startswith(lines[offset + 1], Marker)
          THEN /\ pc' = "done"
               /\ ret' = <<TRUE, SplitOn(lines[offset + 1], ";")>>
               /\ UNCHANGED <<exc, offset>>
          ELSE /\ pc' = "for_i"
               /\ offset' = offset + 1
               /\ UNCHANGED <<ret, exc>>
    /\ UNCHANGED <<args, files, out, lat, this_iter, retval, latencies,
                   ptiles, compared, mainVars>>

\* line 182
GetTerseFail ==
    /\ pc \in {"call", "for_i"}
    /\ offset = TerseTries
    /\ pc' = "done"
    /\ ret' = <<FALSE, "">>
    /\ UNCHANGED <<args, files, exc, out, lat, this_iter, retval, latencies,
                   ptiles, compared, offset, tried, mainVars>>

NextGetTerse == GetTerseLine \/ GetTerseFail

SpecGetTerse == InitGetTerse /\ [][NextGetTerse]_vars

(***************************************************************************)
(* Properties.                                                             *)
(***************************************************************************)

\* C1: when a disabled latency type's section carries a 'percentile'
\* mapping, the verdict check_latencies returns is False.
\* (SpecLatencies)
C1_DisabledWithPercentilesFails ==
    (/\ pc = "done"
     /\ \E l \in Range(LatTypes) :
          /\ ~types(args)[l]
          /\ "percentile" \in DOMAIN args.jsondata[Ns(l)])
    => ret = FALSE

\* C2: a test whose report get_json cannot decode is printed and tallied as
\* FAILED, and the tally covers every test run so far.  (SpecMain)
C2_UndecodableReportFails ==
    /\ passed + failed = test - 1
    /\ (args.test_id > 0 /\ args.fio_ok /\ ~args.json_ok)
       => (<<args.test_id, "FAILED">> \in out /\ ~Truthy(status))

\* C3: similar(estimate, 0) does not raise, and similar(0, 0) is a pass.
\* (SpecSimilar)
C3_ZeroReferenceNeverRaises ==
    (pc # "call" /\ args.actual = 0)
    => (pc = "done" /\ (args.estimate = 0 => ret))

\* C4: an enabled latency type whose section lacks 'percentile' does not
\* make check_latencies raise, and makes the returned verdict False.
\* (SpecLatencies)
C4_MissingPercentilesNoRaise ==
    \A i \in 1..Len(LatTypes) :
        (/\ types(args)[LatTypes[i]]
         /\ "percentile" \notin DOMAIN args.jsondata[Ns(LatTypes[i])])
        => /\ ~(pc = "raised" /\ lat = i /\ exc = "KeyError")
           /\ (pc = "done" => ret = FALSE)

\* C5: every reference value a reported percentile p was compared with is
\* the nearest-rank order statistic sorted[max(ceil(p/100*n) - 1, 0)] of the
\* n loaded samples, and the index used is within 0..n-1.  (SpecRank)
C5_NearestRankReference ==
    \A c \in compared :
        LET sorted == Sort(Load(files[c.lat], args.unified, args.ddir))
            n == Len(sorted)
            d == Decimal(c.percentile)
            r == (d[1] * n + d[2] * 100 - 1) \div (d[2] * 100)
            i == IF r - 1 > 0 THEN r - 1 ELSE 0
        IN /\ c.index \in 0..(n - 1)
           /\ c.index = i
           /\ c.value = sorted[i + 1]

C7_AllThreeChecks ==
    (pc # "call" /\ DOMAIN args.bins # {})
    => LET smallest == Min(DOMAIN args.bins)
           biggest == Max(DOMAIN args.bins)
       IN /\ pc = "done"
          /\ ret <=> /\ 128 * Abs(args.min - smallest) <= smallest
                     /\ 128 * Abs(args.max - biggest) <= biggest
                     /\ SumOver(args.bins, DOMAIN args.bins) = args.N

\* C8: check_terse returns True exactly when every field "<label>%=<value>"
\* has value = floor(jsondata[label] / 1000), and it has compared every
\* field when it returns.  (SpecTerse)
C8_TerseExactFloor ==
    pc = "done"
    => /\ compared = 1..Len(args.terse)
       /\ ret <=> \A i \in 1..Len(args.terse) :
                     \E l \in DOMAIN args.jsondata, v \in TerseVals :
                        /\ args.terse[i] = Field(l, v)
                        /\ v = args.jsondata[l] \div 1000

\* a mismatch in the first field, the second field still compared
C8_Witness ==
    /\ pc = "done"
    /\ ~ret
    /\ compared = {1, 2}
    /\ args.jsondata[Pct99] = 1234000
    /\ args.terse = <<Field(Pct99, 1235), Field(Pct99, 1234)>>

C10_MismatchNeverAborts ==
    \A i \in 1..Len(LatTypes) :
        LET l == LatTypes[i]
            sec == args.jsondata[Ns(l)]
        IN (/\ types(args)[l]
            /\ "percentile" \in DOMAIN sec
            /\ args.jsondata.total_ios
               # Len(Load(files[l], args.unified, args.ddir)))
           => /\ ~(pc = "raised" /\ lat = i)
              /\ pc = "done"
                 => /\ ret = FALSE
                    /\ \A k \in 1..Len(sec.percentile) :
                         \E c \in compared :
                            c.lat = l /\ c.percentile = sec.percentile[k][1]

C12_SmallestDecodableOffset ==
    LET lines == files[args.filename]
        rest(k) == SubSeq(lines, k + 1, Len(lines))
        ok == {k \in 0..4 : loads(rest(k)).exc = "none"}
    IN /\ pc # "raised"
       /\ tried = [k \in 1..Len(tried) |-> k - 1]
       /\ Len(tried) <= 5
       /\ pc = "done"
          => IF ok = {}
             THEN ret = <<FALSE, "">> /\ Len(tried) = 5
             ELSE /\ ret = <<TRUE, loads(rest(Min(ok))).val>>
                  /\ Len(tried) = Min(ok) + 1

\* two messages, then a blank line and the document: offsets 2 and 3 both
\* decode, and the call stopped at offset 2
C12_Witness ==
    /\ pc = "done"
    /\ files[args.filename] = <<"fio: note", "fio: note", "", "1">>
    /\ ret = <<TRUE, "1">>
    /\ tried = <<0, 1, 2>>

\* C13: the verdict check_latencies returns is the AND of all checks of the
\* three latency types: it is False exactly when some check of some type
\* failed (each failed check prints a diagnostic other than "skipped" and
\* "match"), and every percentile reported for an enabled type has been
\* compared, whatever failed before it.  (SpecLatencies)
C13_VerdictIsAndOfChecks ==
    pc = "done"
    => /\ ret = (\A m \in out :
                    m[2] \in {"percentiles skipped", "percentiles match"})
       /\ \A l \in Range(LatTypes) :
             LET sec == args.jsondata[Ns(l)]
             IN (types(args)[l] /\ "percentile" \in DOMAIN sec)
                => \A k \in 1..Len(sec.percentile) :
                      \E c \in compared :
                         c.lat = l /\ c.percentile = sec.percentile[k][1]

\* C14: the samples check_latencies has loaded for a latency type hold each
\* latency value as many times as the log of that type has records with that
\* value and, unless unified is set, with direction code ddir; under
\* unified every record counts, whatever ddir is.  (SpecLoad)
C14_SamplesAreSelectedRecords ==
    pc = "for_percentile"
    => LET log == files[LatTypes[lat]]
           sel == {k \in 1..Len(log) :
                      args.unified \/ log[k][3] = args.ddir}
       IN /\ Len(latencies) = Cardinality(sel)
          /\ \A v \in {log[k][2] : k \in 1..Len(log)} :
                Cardinality({k \in 1..Len(latencies) : latencies[k] = v})
                   = Cardinality({k \in sel : log[k][2] = v})

\* unified reporting called with ddir = 0, as check_t008 does: a write, a
\* read and a trim are pooled, the value 200 is kept twice
C14_Witness ==
    /\ pc = "for_percentile"
    /\ args.unified /\ args.ddir = 0
    /\ files.clat = << <<0, 200, 1>>, <<0, 100, 0>>, <<0, 200, 2>> >>
    /\ latencies = <<100, 200, 200>>

\* C15: get_terse never raises, and returns (False, '') when none of the
\* first 8 lines of the output, or of all its lines when there are fewer,
\* begins with '3;fio-'; otherwise it returns (True, fields) with the first
\* such line split on ';'.  (SpecGetTerse)
C15_GetTerseShortFile ==
    LET lines == files[args.filename]
        hits == {k \in 1..Min({8, Len(lines)}) : startswith(lines[k], Marker)}
    IN /\ pc # "raised"
       /\ pc = "done"
          => IF hits = {}
             THEN ret[1] = FALSE /\ ret[2] = ""
             ELSE ret[1] = TRUE /\ ret[2] = SplitOn(lines[Min(hits)], ";")

====
